---------------------------- MODULE Spec2Model ----------------------------
(***************************************************************************)
(* Model of fledge/electric_grid_models.py: the construction of the        *)
(* ElectricGridIndex (dimension counts, flattened node / branch tables,    *)
(* position-list lookups) and of the ElectricGridModel (sparse matrices    *)
(* filled line by line through insert_sub_matrix).                         *)
(*                                                                         *)
(* Positions are zero-based, as in the source.  Complex admittances are    *)
(* kept exact: a value <<re, im, den, sh>> stands for                      *)
(*     (re + j*im) / den  +  j * sh * (pi * 1e-9)                          *)
(* with den > 0 and gcd(re, im, den) = 1.  The first part is the series    *)
(* admittance (a rational complex number for integer r, x and length), the *)
(* second the shunt admittance c * 2*pi*f * 1e-9 * 0.5j * length, whose    *)
(* factor pi is irrational and so never mixes with the first part.  The    *)
(* source computes the same values in double precision.                    *)
(***************************************************************************)
EXTENDS Integers, Sequences, FiniteSets, TLC

VARIABLES
    electric_grid_data,           \* the input tables (never modified)
    pc,                           \* position in ElectricGridModel.__init__
    error,                        \* exception that aborted construction
    nodes,                        \* flattened node table (local of the index)
    branches,                     \* flattened branch table (local of the index)
    index,                        \* the ElectricGridIndex fields
    line_index,                   \* next row of electric_grid_lines to add
    node_admittance_matrix,
    node_transformation_matrix,
    branch_admittance_1_matrix,
    branch_admittance_2_matrix,
    branch_incidence_1_matrix,
    branch_incidence_2_matrix,
    load_incidence_wye_matrix,
    load_incidence_delta_matrix

vars == <<electric_grid_data, pc, error, nodes, branches, index, line_index,
          node_admittance_matrix, node_transformation_matrix,
          branch_admittance_1_matrix, branch_admittance_2_matrix,
          branch_incidence_1_matrix, branch_incidence_2_matrix,
          load_incidence_wye_matrix, load_incidence_delta_matrix>>

matrices == <<node_admittance_matrix, node_transformation_matrix,
              branch_admittance_1_matrix, branch_admittance_2_matrix,
              branch_incidence_1_matrix, branch_incidence_2_matrix,
              load_incidence_wye_matrix, load_incidence_delta_matrix>>

(***************************************************************************)
(* Generic helpers.                                                        *)
(***************************************************************************)
Range(s) == {s[i] : i \in DOMAIN s}

Min(a, b) == IF a < b THEN a ELSE b

Abs(a) == IF a < 0 THEN -a ELSE a

RECURSIVE GCD(_, _)
GCD(a, b) == IF b = 0 THEN a ELSE GCD(b, a % b)

RECURSIVE SumSeq(_)
SumSeq(s) == IF s = <<>> THEN 0 ELSE Head(s) + SumSeq(Tail(s))

\* np.nonzero(mask)[0].tolist(): the zero-based positions, in increasing
\* order, of the rows of `table` that satisfy P.
PositionsWhere(table, P(_)) ==
    LET all == [i \in 1..Len(table) |-> i - 1]
    IN  SelectSeq(all, LAMBDA pos : P(table[pos + 1]))

\* The value dict.fromkeys() gives every key: None.  Position lists hold
\* numbers >= 0, so the list <<-1>> is no position list.
None == <<-1>>

(***************************************************************************)
(* The phase-connection columns of a row of any element table.             *)
(***************************************************************************)
phases == <<"1", "2", "3">>

PhaseFlag(row, phase) ==
    CASE phase = "1" -> row.is_phase_1_connected
      [] phase = "2" -> row.is_phase_2_connected
      [] phase = "3" -> row.is_phase_3_connected

\* table.loc[:, ['is_phase_1_connected', ...]].sum().sum()
FlagSum(table) ==
    SumSeq([i \in 1..Len(table) |->
                table[i].is_phase_1_connected
              + table[i].is_phase_2_connected
              + table[i].is_phase_3_connected])

\* table.loc[table['is_phase_<p>_connected'] == 1, :]
ConnectedRows(table, phase) ==
    SelectSeq(table, LAMBDA row : PhaseFlag(row, phase) = 1)

\* pd.concat / np.concatenate over the three phases, in phase order.
ByPhase(table, Column(_, _)) ==
    LET part(phase) == LET rows == ConnectedRows(table, phase)
                       IN  [i \in 1..Len(rows) |-> Column(rows[i], phase)]
    IN  part("1") \o part("2") \o part("3")

(***************************************************************************)
(* ElectricGridIndex.__init__                                              *)
(***************************************************************************)
\* Transformers for one / first winding.
electric_grid_transformers_one_winding(data) ==
    SelectSeq(data.electric_grid_transformers, LAMBDA row : row.winding = 1)

\* Variant: the third phase column left out of the sum.
node_dimension_two_phases(data) ==
    SumSeq([i \in 1..Len(data.electric_grid_nodes) |->
                data.electric_grid_nodes[i].is_phase_1_connected
              + data.electric_grid_nodes[i].is_phase_2_connected])

node_dimension(data) == FlagSum(data.electric_grid_nodes)

line_dimension(data) == FlagSum(data.electric_grid_lines)

transformer_dimension(data) ==
    FlagSum(electric_grid_transformers_one_winding(data))

branch_dimension(data) == line_dimension(data) + transformer_dimension(data)

load_dimension(data) == Len(data.electric_grid_loads)

\* Variant: the rows node by node instead of phase by phase.
RECURSIVE NodeMajorRows(_, _)
NodeMajorRows(rows, source) ==
    IF rows = <<>> THEN <<>>
    ELSE LET row == Head(rows)
             own == SelectSeq(phases, LAMBDA phase : PhaseFlag(row, phase) = 1)
         IN  [i \in 1..Len(own) |->
                 [node_name |-> row.node_name,
                  phase     |-> own[i],
                  node_type |-> IF row.node_name = source THEN "source"
                                                          ELSE "no_source"]]
             \o NodeMajorRows(Tail(rows), source)

NodesTableNodeMajor(data) ==
    NodeMajorRows(data.electric_grid_nodes,
                  data.electric_grids.source_node_name)

\* The `nodes` data frame: node_dimension rows; the columns are filled by
\* position from the per-phase concatenations (a row past the end of the
\* concatenated names would hold NaN).
NodesTable(data) ==
    LET names  == ByPhase(data.electric_grid_nodes,
                          LAMBDA row, phase : row.node_name)
        labels == ByPhase(data.electric_grid_nodes,
                          LAMBDA row, phase : phase)
        source == data.electric_grids.source_node_name
    IN  [i \in 1..node_dimension(data) |->
            LET name == IF i <= Len(names) THEN names[i] ELSE "NaN"
            IN  [node_name |-> name,
                 phase     |-> IF i <= Len(labels) THEN labels[i] ELSE "NaN",
                 node_type |-> IF name = source THEN "source"
                                                ELSE "no_source"]]

\* The `branches` data frame: lines by phase, then one-winding transformers
\* by phase.
BranchesTable(data) ==
    LET transformers == electric_grid_transformers_one_winding(data)
        names  == ByPhase(data.electric_grid_lines,
                          LAMBDA row, phase : row.line_name)
                  \o ByPhase(transformers,
                             LAMBDA row, phase : row.transformer_name)
        labels == ByPhase(data.electric_grid_lines,
                          LAMBDA row, phase : phase)
                  \o ByPhase(transformers, LAMBDA row, phase : phase)
        types  == [i \in 1..line_dimension(data) |-> "line"]
                  \o [i \in 1..transformer_dimension(data) |-> "transformer"]
    IN  [i \in 1..branch_dimension(data) |->
            [branch_name |-> IF i <= Len(names) THEN names[i] ELSE "NaN",
             phase       |-> IF i <= Len(labels) THEN labels[i] ELSE "NaN",
             branch_type |-> IF i <= Len(types) THEN types[i] ELSE "NaN"]]

node_names(data) ==
    [i \in 1..Len(data.electric_grid_nodes) |->
        data.electric_grid_nodes[i].node_name]

line_names(data) ==
    [i \in 1..Len(data.electric_grid_lines) |->
        data.electric_grid_lines[i].line_name]

transformer_names(data) ==
    LET transformers == electric_grid_transformers_one_winding(data)
    IN  [i \in 1..Len(transformers) |-> transformers[i].transformer_name]

load_names(data) ==
    [i \in 1..Len(data.electric_grid_loads) |->
        data.electric_grid_loads[i].load_name]

\* electric_grid_loads.at[load_name, ...]: the row labelled load_name.
LoadRow(data, load_name) ==
    LET loads == data.electric_grid_loads
    IN  loads[CHOOSE i \in 1..Len(loads) : loads[i].load_name = load_name]

\* Index by node name.
node_by_node_name(data, table) ==
    [node_name \in Range(node_names(data)) |->
        PositionsWhere(table, LAMBDA row : row.node_name = node_name)]

\* Variant: positions counted from one.
node_by_phase_one_based(table) ==
    [phase \in Range(phases) |->
        LET found == PositionsWhere(table, LAMBDA row : row.phase = phase)
        IN  [i \in 1..Len(found) |-> found[i] + 1]]

\* Index by phase.
node_by_phase(table) ==
    [phase \in Range(phases) |->
        PositionsWhere(table, LAMBDA row : row.phase = phase)]

\* Variant: the 'no_source' list is not filtered by node type.
node_by_node_type_unfiltered(table) ==
    [node_type \in {"source", "no_source"} |->
        PositionsWhere(table, LAMBDA row : \/ row.node_type = node_type
                                           \/ node_type = "no_source")]

\* Index by node type.
node_by_node_type(table) ==
    [node_type \in {"source", "no_source"} |->
        PositionsWhere(table, LAMBDA row : row.node_type = node_type)]

\* Index by load name: rows of the load's node at the load's phases.
node_by_load_name(data, table) ==
    [load_name \in Range(load_names(data)) |->
        LET load == LoadRow(data, load_name)
            load_phases == {phase \in Range(phases) : PhaseFlag(load, phase) = 1}
        IN  PositionsWhere(table,
                LAMBDA row : /\ row.node_name = load.node_name
                             /\ row.phase \in load_phases)]

\* Index by line name, then the loop "Index by transformer name", which
\* stores its position lists into branch_by_line_name as well.
LinePositions(table, line_name) ==
    PositionsWhere(table, LAMBDA row : /\ row.branch_name = line_name
                                       /\ row.branch_type = "line")

TransformerPositions(table, transformer_name) ==
    PositionsWhere(table, LAMBDA row : /\ row.branch_name = transformer_name
                                       /\ row.branch_type = "transformer")

branch_by_line_name(data, table) ==
    LET lines        == Range(line_names(data))
        transformers == Range(transformer_names(data))
    IN  [name \in lines \cup transformers |->
            IF name \in transformers
            THEN TransformerPositions(table, name)
            ELSE LinePositions(table, name)]

\* dict.fromkeys(self.transformer_names): no entry is assigned afterwards.
branch_by_transformer_name(data, table) ==
    [transformer_name \in Range(transformer_names(data)) |-> None]

branch_by_phase(table) ==
    [phase \in Range(phases) |->
        PositionsWhere(table, LAMBDA row : row.phase = phase)]

\* dict(zip(load_names, range(len(load_names)))): the last row wins.
load_by_load_name(data) ==
    LET names == load_names(data)
    IN  [load_name \in Range(names) |->
            (CHOOSE i \in 1..Len(names) :
                /\ names[i] = load_name
                /\ \A k \in 1..Len(names) : names[k] = load_name => k <= i) - 1]

ElectricGridIndex(data) ==
    LET node_table   == NodesTable(data)
        branch_table == BranchesTable(data)
    IN  [node_dimension    |-> node_dimension(data),
         branch_dimension  |-> branch_dimension(data),
         load_dimension    |-> load_dimension(data),
         node_names        |-> node_names(data),
         line_names        |-> line_names(data),
         transformer_names |-> transformer_names(data),
         load_names        |-> load_names(data),
         node_by_node_name |-> node_by_node_name(data, node_table),
         node_by_phase     |-> node_by_phase(node_table),
         node_by_node_type |-> node_by_node_type(node_table),
         node_by_load_name |-> node_by_load_name(data, node_table),
         branch_by_line_name        |-> branch_by_line_name(data, branch_table),
         branch_by_transformer_name |-> branch_by_transformer_name(data, branch_table),
         branch_by_phase   |-> branch_by_phase(branch_table),
         load_by_load_name |-> load_by_load_name(data)]

(***************************************************************************)
(* Complex arithmetic.  A Gaussian integer is a pair <<re, im>>; an        *)
(* admittance is <<re, im, den, sh>> as described at the top.              *)
(***************************************************************************)
GAdd(a, b) == <<a[1] + b[1], a[2] + b[2]>>

GNeg(a) == <<-a[1], -a[2]>>

GMul(a, b) == <<a[1] * b[1] - a[2] * b[2], a[1] * b[2] + a[2] * b[1]>>

GZero == <<0, 0>>

GOne == <<1, 0>>

Zero == <<0, 0, 1, 0>>

One == <<1, 0, 1, 0>>

\* Lowest terms, positive denominator.
Normalize(re, im, den, sh) ==
    LET g == GCD(GCD(Abs(re), Abs(im)), Abs(den))
        s == IF den < 0 THEN -1 ELSE 1
    IN  <<s * (re \div g), s * (im \div g), s * (den \div g), sh>>

CAdd(a, b) ==
    Normalize(a[1] * b[3] + b[1] * a[3], a[2] * b[3] + b[2] * a[3],
              a[3] * b[3], a[4] + b[4])

CNeg(a) == <<-a[1], -a[2], a[3], -a[4]>>

\* The quotient of two Gaussian integers, d /= 0.
CDiv(n, d) ==
    LET num == GMul(n, <<d[1], -d[2]>>)
    IN  Normalize(num[1], num[2], d[1] * d[1] + d[2] * d[2], 0)

(***************************************************************************)
(* Dense sub-matrices: sequences of rows (matrix.tolist()).                *)
(***************************************************************************)
Dim(m) == Len(m)

\* A function on 1..n written out as the sequence of its values.
AsSeq(f) == SubSeq(f, 1, Len(f))

\* A matrix written out as the sequence of its rows (matrix.tolist()).
Rows(m) == AsSeq([i \in DOMAIN m |-> AsSeq(m[i])])

MatAdd(a, b) ==
    Rows([i \in 1..Dim(a) |-> [k \in 1..Len(a[i]) |-> CAdd(a[i][k], b[i][k])]])

MatNeg(a) ==
    Rows([i \in 1..Dim(a) |-> [k \in 1..Len(a[i]) |-> CNeg(a[i][k])]])

\* np.identity(n)
Identity(n) ==
    Rows([i \in 1..n |-> [k \in 1..n |-> IF i = k THEN One ELSE Zero]])

\* The matrix without row i and column k.
Minor(m, i, k) ==
    LET n == Dim(m)
    IN  Rows([a \in 1..(n - 1) |-> [b \in 1..(n - 1) |->
            m[IF a < i THEN a ELSE a + 1][IF b < k THEN b ELSE b + 1]]])

RECURSIVE Det(_)
Det(m) ==
    IF Dim(m) = 0 THEN GOne
    ELSE LET term[k \in 0..Dim(m)] ==
                 IF k = 0 THEN GZero
                 ELSE LET t == GMul(m[1][k], Det(Minor(m, 1, k)))
                      IN  GAdd(term[k - 1], IF k % 2 = 1 THEN t ELSE GNeg(t))
         IN  term[Dim(m)]

\* np.linalg.inv of a non-singular matrix of Gaussian integers: the
\* transposed cofactors over the determinant.
Inverse(m) ==
    LET d == Det(m)
    IN  Rows([i \in 1..Dim(m) |-> [k \in 1..Dim(m) |->
            LET c == Det(Minor(m, k, i))
            IN  CDiv(IF (i + k) % 2 = 0 THEN c ELSE GNeg(c), d)]])

(***************************************************************************)
(* ElectricGridModel.__init__: the per-line element matrices.              *)
(***************************************************************************)
base_frequency == 60

\* np.array([[1, 2, 4], [2, 3, 5], [4, 5, 6]]) - 1
rxc_matrix_full_index_base == <<<<0, 1, 3>>, <<1, 2, 4>>, <<3, 4, 5>>>>

\* rxc_matrix_full_index[:n_phases, :n_phases]
rxc_matrix_full_index(line) ==
    LET n == Min(line.n_phases, Len(rxc_matrix_full_index_base))
    IN  Rows([i \in 1..n |-> [k \in 1..n |-> rxc_matrix_full_index_base[i][k]]])

\* Rows of electric_grid_line_types_matrices of the line's type.
rxc_matrix_entries(data, line) ==
    SelectSeq(data.electric_grid_line_types_matrices,
              LAMBDA row : row.line_type = line.line_type)

\* entries[rxc_matrix_full_index] raises IndexError when an index is past
\* the end of the entries.
EntriesIndexError(data, line) ==
    LET full == rxc_matrix_full_index(line)
    IN  \E i \in 1..Dim(full) : \E k \in 1..Dim(full) :
            full[i][k] >= Len(rxc_matrix_entries(data, line))

\* (r_matrix + 1j * x_matrix) * line['length']
ImpedanceMatrix(data, line) ==
    LET entries == rxc_matrix_entries(data, line)
        full    == rxc_matrix_full_index(line)
    IN  Rows([i \in 1..Dim(full) |-> [k \in 1..Dim(full) |->
            <<entries[full[i][k] + 1].r * line.length,
              entries[full[i][k] + 1].x * line.length>>]])

\* np.linalg.inv raises LinAlgError for a singular matrix.
SingularMatrix(data, line) == Det(ImpedanceMatrix(data, line)) = GZero

series_admittance_matrix(data, line) == Inverse(ImpedanceMatrix(data, line))

\* c_matrix * 2 * np.pi * base_frequency * 1e-9 * 0.5j * line['length']
shunt_admittance_matrix(data, line) ==
    LET entries == rxc_matrix_entries(data, line)
        full    == rxc_matrix_full_index(line)
    IN  Rows([i \in 1..Dim(full) |-> [k \in 1..Dim(full) |->
            <<0, 0, 1,
              entries[full[i][k] + 1].c * base_frequency * line.length>>]])

admittance_matrix_11(data, line) ==
    MatAdd(series_admittance_matrix(data, line),
           shunt_admittance_matrix(data, line))

admittance_matrix_12(data, line) ==
    MatNeg(series_admittance_matrix(data, line))

admittance_matrix_21(data, line) ==
    MatNeg(series_admittance_matrix(data, line))

\* Variant: the second diagonal block without the shunt admittance.
admittance_matrix_22_no_shunt(data, line) ==
    series_admittance_matrix(data, line)

admittance_matrix_22(data, line) ==
    MatAdd(series_admittance_matrix(data, line),
           shunt_admittance_matrix(data, line))

(***************************************************************************)
(* Sparse matrices: functions from <<row, col>> to a value.                *)
(***************************************************************************)
\* scipy.sparse.dok_matrix((rows, cols))
dok_matrix(rows, cols) ==
    [shape   |-> <<rows, cols>>,
     entries |-> [rc \in (0..(rows - 1)) \X (0..(cols - 1)) |-> Zero]]

\* The row numbers 0..shape[0]-1 and the column numbers 0..shape[1]-1.
RowsOf(matrix) == 0..(matrix.shape[1] - 1)

ColsOf(matrix) == 0..(matrix.shape[2] - 1)

\* The two nested zip loops of insert_sub_matrix, flattened: step k visits
\* sub-matrix entry (k div nc, k mod nc); zip stops at the shorter operand.
RECURSIVE InsertFrom(_, _, _, _, _)
InsertFrom(matrix, sub_matrix, row_indexes, col_indexes, k) ==
    LET nr == Min(Len(row_indexes), Dim(sub_matrix))
        nc == IF nr = 0 THEN 0 ELSE Min(Len(col_indexes), Len(sub_matrix[1]))
    IN  IF k >= nr * nc THEN matrix
        ELSE LET i == (k \div nc) + 1
                 j == (k % nc) + 1
                 rc == <<row_indexes[i], col_indexes[j]>>
             IN  InsertFrom([matrix EXCEPT
                                !.entries[rc] = CAdd(@, sub_matrix[i][j])],
                            sub_matrix, row_indexes, col_indexes, k + 1)

RECURSIVE AssignFrom(_, _, _, _, _)
AssignFrom(matrix, sub_matrix, row_indexes, col_indexes, k) ==
    LET nr == Min(Len(row_indexes), Dim(sub_matrix))
        nc == IF nr = 0 THEN 0 ELSE Min(Len(col_indexes), Len(sub_matrix[1]))
    IN  IF k >= nr * nc THEN matrix
        ELSE LET i == (k \div nc) + 1
                 j == (k % nc) + 1
                 rc == <<row_indexes[i], col_indexes[j]>>
             IN  AssignFrom([matrix EXCEPT !.entries[rc] = sub_matrix[i][j]],
                            sub_matrix, row_indexes, col_indexes, k + 1)

\* Variant: `=` in place of `+=`.
insert_sub_matrix_assign(matrix, sub_matrix, row_indexes, col_indexes) ==
    AssignFrom(matrix, sub_matrix, row_indexes, col_indexes, 0)

\* matrix[row, col] += value, element by element.
insert_sub_matrix(matrix, sub_matrix, row_indexes, col_indexes) ==
    InsertFrom(matrix, sub_matrix, row_indexes, col_indexes, 0)

(***************************************************************************)
(* Grid Data: the bounded inputs.                                          *)
(***************************************************************************)
MaxNodes == 2
MaxLines == 2
MaxTransformers == 1
MaxLoads == 2

Flags(f1, f2, f3) ==
    [is_phase_1_connected |-> f1,
     is_phase_2_connected |-> f2,
     is_phase_3_connected |-> f3]

FlagChoices ==
    {Flags(1, 1, 1), Flags(1, 0, 1), Flags(0, 1, 0), Flags(0, 0, 0)}

ConnectedFlagChoices == FlagChoices \ {Flags(0, 0, 0)}

NodeNamePool == <<"n1", "n2", "n3", "n4">>
LineNamePool == <<"l1", "l2", "l3", "l4">>
LoadNamePool == <<"ld1", "ld2", "ld3", "ld4">>
TransformerNameChoices == {"tr1", "l1"}
SourceNameChoices == {"n1", "n9"}
LengthChoices == {1, 2}
ParallelLineCounts == {1, 2}

\* Upper-triangular r / x / c entries per line type, in the order the
\* coupling-index map reads them: 11, 12, 22, 13, 23, 33.
MatrixRows(line_type, r, x, c) ==
    [i \in 1..Len(r) |->
        [line_type |-> line_type, r |-> r[i], x |-> x[i], c |-> c[i]]]

electric_grid_line_types_matrices ==
       MatrixRows("lt3", <<2, 1, 2, 0, 1, 2>>, <<1, 0, 1, 0, 0, 1>>,
                         <<1, 0, 1, 0, 0, 2>>)
    \o MatrixRows("lt2", <<1, 0, 1>>, <<1, 0, 1>>, <<1, 0, 2>>)
    \o MatrixRows("lt1", <<1>>, <<0>>, <<0>>)
    \o MatrixRows("lt2x", <<1, 0, 2, 5, 5, 5>>, <<0, 0, 0, 5, 5, 5>>,
                          <<0, 0, 0, 5, 5, 5>>)
    \o MatrixRows("lt3s", <<1, 0, 1>>, <<0, 0, 0>>, <<0, 0, 0>>)
    \o MatrixRows("lt0", <<0>>, <<0>>, <<0>>)

\* n_phases as declared with each line type.
LineTypeChoices ==
    {[line_type |-> "lt3", n_phases |-> 3],
     [line_type |-> "lt2", n_phases |-> 2],
     [line_type |-> "lt1", n_phases |-> 1],
     [line_type |-> "lt2x", n_phases |-> 2],
     [line_type |-> "lt3s", n_phases |-> 3],
     [line_type |-> "lt0", n_phases |-> 1]}

\* All sequences of length 0..n over S.
SeqsUpTo(S, n) == UNION {[1..k -> S] : k \in 0..n}

NodeRows(flags) ==
    [i \in 1..Len(flags) |-> [node_name |-> NodeNamePool[i]] @@ flags[i]]

LineRows(rest) ==
    [i \in 1..Len(rest) |-> [line_name |-> LineNamePool[i]] @@ rest[i]]

LoadRows(rest) ==
    [i \in 1..Len(rest) |-> [load_name |-> LoadNamePool[i]] @@ rest[i]]

\* A two-winding transformer: one row per winding, same phases on both.
RECURSIVE TransformerRows(_)
TransformerRows(rest) ==
    IF rest = <<>> THEN <<>>
    ELSE <<[winding |-> 1] @@ Head(rest), [winding |-> 2] @@ Head(rest)>>
         \o TransformerRows(Tail(rest))

GridData(node_rows, line_rows, transformer_rows, load_rows, source) ==
    [electric_grids |-> [source_node_name |-> source],
     electric_grid_nodes |-> node_rows,
     electric_grid_lines |-> line_rows,
     electric_grid_line_types_matrices |-> electric_grid_line_types_matrices,
     electric_grid_transformers |-> transformer_rows,
     electric_grid_loads |-> load_rows]

\* A single-phase line of unit length from n1 to n2 with the given phases.
PlainLine(flags) ==
    [line_type |-> "lt1", n_phases |-> 1, length |-> 1,
     node_1_name |-> "n1", node_2_name |-> "n2"] @@ flags

TwoFullNodes == NodeRows(<<Flags(1, 1, 1), Flags(1, 1, 1)>>)

\* Grids that vary the nodes and the source name (which may name no node),
\* without a line or with one line from n1 to n2 (n2 may not exist).
NodeGrids(data) ==
    \E n \in SeqsUpTo(FlagChoices, MaxNodes) \ {<<>>},
       l \in {<<>>, <<PlainLine(Flags(1, 1, 1))>>},
       s \in SourceNameChoices :
         data = GridData(NodeRows(n), LineRows(l), <<>>, <<>>, s)

\* Grids that vary the branches: lines with any phases and two-winding
\* transformers, one of them named like a line.
BranchGrids(data) ==
    LET line_rest == {PlainLine(f) : f \in ConnectedFlagChoices}
        transformer_rest == {[transformer_name |-> t] @@ f :
                             t \in TransformerNameChoices,
                             f \in ConnectedFlagChoices}
    IN  \E l \in SeqsUpTo(line_rest, MaxLines),
           t \in SeqsUpTo(transformer_rest, MaxTransformers) :
             data = GridData(TwoFullNodes, LineRows(l), TransformerRows(t),
                             <<>>, "n1")

\* Grids that vary the loads and the phases of the nodes they sit on.
LoadGrids(data) ==
    LET load_rest == {[node_name |-> n] @@ f :
                      n \in {"n1", "n2"},
                      f \in {Flags(1, 1, 1), Flags(0, 1, 0)}}
    IN  \E n \in SeqsUpTo({Flags(1, 1, 1), Flags(1, 0, 1), Flags(0, 0, 0)},
                          MaxNodes) \ {<<>>},
           l \in SeqsUpTo(load_rest, MaxLoads) \ {<<>>} :
             data = GridData(NodeRows(n), <<>>, <<>>, LoadRows(l), "n1")

\* Grids that vary the line element matrices: two nodes, one line or two
\* parallel lines from n1 to n2 of any type, phases and length.
LineGrids(data) ==
    LET line_rest == {(t @@ f) @@ [length |-> len, node_1_name |-> "n1",
                                   node_2_name |-> "n2"] :
                      t \in LineTypeChoices,
                      f \in {Flags(1, 1, 1), Flags(1, 0, 1)},
                      len \in LengthChoices}
    IN  \E n \in [1..2 -> {Flags(1, 1, 1), Flags(1, 0, 1)}],
           k \in ParallelLineCounts :
           \E l \in [1..k -> line_rest] :
             data = GridData(NodeRows(n), LineRows(l), <<>>, <<>>, "n1")

(***************************************************************************)
(* The state machine: ElectricGridModel.__init__ step by step.             *)
(***************************************************************************)
EmptyIndex ==
    [node_dimension    |-> 0,
     branch_dimension  |-> 0,
     load_dimension    |-> 0,
     node_names        |-> <<>>,
     line_names        |-> <<>>,
     transformer_names |-> <<>>,
     load_names        |-> <<>>,
     node_by_node_name |-> <<>>,
     node_by_phase     |-> <<>>,
     node_by_node_type |-> <<>>,
     node_by_load_name |-> <<>>,
     branch_by_line_name        |-> <<>>,
     branch_by_transformer_name |-> <<>>,
     branch_by_phase   |-> <<>>,
     load_by_load_name |-> <<>>]

Init ==
    /\ \/ NodeGrids(electric_grid_data)
       \/ BranchGrids(electric_grid_data)
       \/ LoadGrids(electric_grid_data)
       \/ LineGrids(electric_grid_data)
    /\ pc = "start"
    /\ error = "none"
    /\ nodes = <<>>
    /\ branches = <<>>
    /\ index = EmptyIndex
    /\ line_index = 1
    /\ node_admittance_matrix = <<>>
    /\ node_transformation_matrix = <<>>
    /\ branch_admittance_1_matrix = <<>>
    /\ branch_admittance_2_matrix = <<>>
    /\ branch_incidence_1_matrix = <<>>
    /\ branch_incidence_2_matrix = <<>>
    /\ load_incidence_wye_matrix = <<>>
    /\ load_incidence_delta_matrix = <<>>

\* self.index = ElectricGridIndex(electric_grid_data)
BuildIndex ==
    /\ pc = "start"
    /\ nodes' = NodesTable(electric_grid_data)
    /\ branches' = BranchesTable(electric_grid_data)
    /\ index' = ElectricGridIndex(electric_grid_data)
    /\ pc' = "indexed"
    /\ UNCHANGED <<electric_grid_data, error, line_index, matrices>>

\* Define the sparse matrices.
DefineMatrices ==
    /\ pc = "indexed"
    /\ node_admittance_matrix' =
           dok_matrix(index.node_dimension, index.node_dimension)
    /\ node_transformation_matrix' =
           dok_matrix(index.node_dimension, index.node_dimension)
    /\ branch_admittance_1_matrix' =
           dok_matrix(index.branch_dimension, index.node_dimension)
    /\ branch_admittance_2_matrix' =
           dok_matrix(index.branch_dimension, index.node_dimension)
    /\ branch_incidence_1_matrix' =
           dok_matrix(index.branch_dimension, index.node_dimension)
    /\ branch_incidence_2_matrix' =
           dok_matrix(index.branch_dimension, index.node_dimension)
    /\ load_incidence_wye_matrix' =
           dok_matrix(index.node_dimension, index.load_dimension)
    /\ load_incidence_delta_matrix' =
           dok_matrix(index.node_dimension, index.load_dimension)
    /\ pc' = "lines"
    /\ UNCHANGED <<electric_grid_data, error, nodes, branches, index,
                   line_index>>

\* The row of electric_grid_lines the loop is at.
CurrentLine == electric_grid_data.electric_grid_lines[line_index]

InLoop ==
    /\ pc = "lines"
    /\ line_index <= Len(electric_grid_data.electric_grid_lines)

\* What stops the loop body for `line`, in the order the body runs.
LineOutcome(data, idx, line) ==
    IF EntriesIndexError(data, line) THEN "IndexError"
    ELSE IF SingularMatrix(data, line) THEN "LinAlgError"
    ELSE IF \/ line.node_1_name \notin DOMAIN idx.node_by_node_name
            \/ line.node_2_name \notin DOMAIN idx.node_by_node_name
         THEN "KeyError"
    ELSE "ok"

Raise(exception) ==
    /\ pc' = "error"
    /\ error' = exception
    /\ UNCHANGED <<electric_grid_data, nodes, branches, index, line_index,
                   matrices>>

\* entries[rxc_matrix_full_index] fails.
AddLineIndexError ==
    /\ InLoop
    /\ LineOutcome(electric_grid_data, index, CurrentLine) = "IndexError"
    /\ Raise("IndexError")

\* np.linalg.inv fails.
AddLineLinAlgError ==
    /\ InLoop
    /\ LineOutcome(electric_grid_data, index, CurrentLine) = "LinAlgError"
    /\ Raise("LinAlgError")

\* node_by_node_name[...] fails.
AddLineKeyError ==
    /\ InLoop
    /\ LineOutcome(electric_grid_data, index, CurrentLine) = "KeyError"
    /\ Raise("KeyError")

\* One pass of the loop body.
AddLine ==
    /\ InLoop
    /\ LineOutcome(electric_grid_data, index, CurrentLine) = "ok"
    /\ LET line == CurrentLine
           y11 == admittance_matrix_11(electric_grid_data, line)
           y12 == admittance_matrix_12(electric_grid_data, line)
           y21 == admittance_matrix_21(electric_grid_data, line)
           y22 == admittance_matrix_22(electric_grid_data, line)
           node_index_1 == index.node_by_node_name[line.node_1_name]
           node_index_2 == index.node_by_node_name[line.node_2_name]
           branch_index == index.branch_by_line_name[line.line_name]
           identity == Identity(Len(branch_index))
       IN  /\ node_admittance_matrix' =
                  insert_sub_matrix(
                  insert_sub_matrix(
                  insert_sub_matrix(
                  insert_sub_matrix(node_admittance_matrix,
                      y11, node_index_1, node_index_1),
                      y12, node_index_1, node_index_2),
                      y21, node_index_2, node_index_1),
                      y22, node_index_2, node_index_2)
           /\ branch_admittance_1_matrix' =
                  insert_sub_matrix(
                  insert_sub_matrix(branch_admittance_1_matrix,
                      y11, branch_index, node_index_1),
                      y12, branch_index, node_index_2)
           /\ branch_admittance_2_matrix' =
                  insert_sub_matrix(
                  insert_sub_matrix(branch_admittance_2_matrix,
                      y21, branch_index, node_index_1),
                      y22, branch_index, node_index_2)
           /\ branch_incidence_1_matrix' =
                  insert_sub_matrix(branch_incidence_1_matrix,
                      identity, branch_index, node_index_1)
           /\ branch_incidence_2_matrix' =
                  insert_sub_matrix(branch_incidence_2_matrix,
                      identity, branch_index, node_index_2)
    /\ line_index' = line_index + 1
    /\ UNCHANGED <<electric_grid_data, pc, error, nodes, branches, index,
                   node_transformation_matrix, load_incidence_wye_matrix,
                   load_incidence_delta_matrix>>

\* The loop is exhausted: the constructor returns.
Finish ==
    /\ pc = "lines"
    /\ line_index > Len(electric_grid_data.electric_grid_lines)
    /\ pc' = "done"
    /\ UNCHANGED <<electric_grid_data, error, nodes, branches, index,
                   line_index, matrices>>

Next ==
    \/ BuildIndex
    \/ DefineMatrices
    \/ AddLine
    \/ AddLineIndexError
    \/ AddLineLinAlgError
    \/ AddLineKeyError
    \/ Finish

Spec == Init /\ [][Next]_vars

(***************************************************************************)
(* Vocabulary of the properties.                                           *)
(***************************************************************************)
IndexBuilt == pc # "start"

MatricesDefined == pc \in {"lines", "done", "error"}

Built == pc = "done"

NodeRowsOfData == electric_grid_data.electric_grid_nodes

LineRowsOfData == electric_grid_data.electric_grid_lines

LoadRowsOfData == electric_grid_data.electric_grid_loads

\* Rows of the transformer table that describe a first winding.
FirstWindingRows ==
    SelectSeq(electric_grid_data.electric_grid_transformers,
              LAMBDA row : row.winding = 1)

ConnectedPhases(row) == {phase \in Range(phases) : PhaseFlag(row, phase) = 1}

ConnectedCount(row) == Cardinality(ConnectedPhases(row))

\* The (element, connected phase) pairs of a table.
ConnectedPairs(table) ==
    {ip \in (1..Len(table)) \X Range(phases) :
        PhaseFlag(table[ip[1]], ip[2]) = 1}

PhaseNumber(phase) ==
    CASE phase = "1" -> 1 [] phase = "2" -> 2 [] phase = "3" -> 3

\* The block of `matrix` at the given row and column positions.
Block(matrix, row_indexes, col_indexes) ==
    [i \in 1..Len(row_indexes) |-> [k \in 1..Len(col_indexes) |->
        matrix.entries[<<row_indexes[i], col_indexes[k]>>]]]

HasNonzero(matrix, row) ==
    \E col \in ColsOf(matrix) : matrix.entries[<<row, col>>] # Zero

(***************************************************************************)
(* C1: after the index is built, node_dimension equals the number of rows  *)
(* of the flattened node table and the number of (node, connected phase)   *)
(* pairs of the node data; once the matrices are defined, the nodal        *)
(* admittance matrix has exactly the rows and columns 0..node_dimension-1. *)
(***************************************************************************)
C1_NodeDimensionExact ==
    /\ IndexBuilt =>
          /\ index.node_dimension = Len(nodes)
          /\ index.node_dimension = Cardinality(ConnectedPairs(NodeRowsOfData))
    /\ MatricesDefined =>
          /\ node_admittance_matrix.shape
                 = <<index.node_dimension, index.node_dimension>>
          /\ DOMAIN node_admittance_matrix.entries =
                 (0..(index.node_dimension - 1))
                     \X (0..(index.node_dimension - 1))
          /\ Cardinality(RowsOf(node_admittance_matrix)) =
                 Cardinality(ConnectedPairs(NodeRowsOfData))
          /\ Cardinality(ColsOf(node_admittance_matrix)) =
                 Cardinality(ConnectedPairs(NodeRowsOfData))

C1_Witness ==
    /\ Built
    /\ Len(NodeRowsOfData) = 2
    /\ ConnectedCount(NodeRowsOfData[1]) = 2
    /\ ConnectedCount(NodeRowsOfData[2]) = 3
    /\ index.node_dimension = 5
    /\ Cardinality(RowsOf(node_admittance_matrix)) = 5

(***************************************************************************)
(* C2: after the index is built, every one-winding transformer name t has  *)
(* in branch_by_transformer_name the positions of the branch rows named t  *)
(* of type 'transformer', as many as t has connected phases; every node,   *)
(* line and load name has an entry in its own lookup.                      *)
(***************************************************************************)
C2_TransformerLookup ==
    IndexBuilt =>
        /\ \A i \in 1..Len(FirstWindingRows) :
              LET t == FirstWindingRows[i].transformer_name
                  expected ==
                      PositionsWhere(branches,
                          LAMBDA row : /\ row.branch_name = t
                                       /\ row.branch_type = "transformer")
              IN  /\ t \in DOMAIN index.branch_by_transformer_name
                  /\ index.branch_by_transformer_name[t] = expected
                  /\ Len(index.branch_by_transformer_name[t]) =
                         ConnectedCount(FirstWindingRows[i])
        /\ \A i \in 1..Len(NodeRowsOfData) :
              NodeRowsOfData[i].node_name \in DOMAIN index.node_by_node_name
        /\ \A i \in 1..Len(LineRowsOfData) :
              LineRowsOfData[i].line_name \in DOMAIN index.branch_by_line_name
        /\ \A i \in 1..Len(LoadRowsOfData) :
              LoadRowsOfData[i].load_name \in DOMAIN index.node_by_load_name

(***************************************************************************)
(* C3: when the declared source node name matches no node of the node      *)
(* table, construction fails at once and no index is returned; no index    *)
(* with an empty node_by_node_type['source'] ever exists.                  *)
(***************************************************************************)
SourceMissing ==
    \A i \in 1..Len(NodeRowsOfData) :
        NodeRowsOfData[i].node_name #
            electric_grid_data.electric_grids.source_node_name

C3_MissingSourceFails ==
    SourceMissing =>
        /\ pc \in {"start", "error"}
        /\ ~(IndexBuilt /\ index.node_by_node_type["source"] = <<>>)

(***************************************************************************)
(* C4: when some line with n phases has a type that does not supply        *)
(* exactly n(n+1)/2 r / x / c entries (fewer or more), construction        *)
(* aborts: it never completes.  Here n is the line's n_phases where that   *)
(* agrees with the number of phases flagged connected.                     *)
(***************************************************************************)
PhaseCountMismatch(line) ==
    /\ line.n_phases = ConnectedCount(line)
    /\ Len(SelectSeq(electric_grid_data.electric_grid_line_types_matrices,
                     LAMBDA row : row.line_type = line.line_type))
           # (line.n_phases * (line.n_phases + 1)) \div 2

C4_MismatchAborts ==
    (\E i \in 1..Len(LineRowsOfData) : PhaseCountMismatch(LineRowsOfData[i]))
        => ~Built

(***************************************************************************)
(* C5: once construction completes, every load's column of a load          *)
(* incidence matrix (wye or delta) is nonzero exactly at the positions of  *)
(* node_by_load_name[load].                                                *)
(***************************************************************************)
LoadColumnPlaced(matrix, load_name) ==
    \A row \in 0..(index.node_dimension - 1) :
        (matrix.entries[<<row, index.load_by_load_name[load_name]>>] # Zero)
            <=> (row \in Range(index.node_by_load_name[load_name]))

C5_LoadIncidence ==
    Built =>
        \A i \in 1..Len(LoadRowsOfData) :
            \/ LoadColumnPlaced(load_incidence_wye_matrix,
                                LoadRowsOfData[i].load_name)
            \/ LoadColumnPlaced(load_incidence_delta_matrix,
                                LoadRowsOfData[i].load_name)

(***************************************************************************)
(* C6: after construction every row of the nodal admittance matrix, one    *)
(* per connected (node, phase) pair, has a nonzero entry, also for nodes   *)
(* attached only to transformers or to no branch.                          *)
(***************************************************************************)
C6_EveryRowNonzero ==
    Built =>
        \A row \in 0..(index.node_dimension - 1) :
            HasNonzero(node_admittance_matrix, row)

(***************************************************************************)
(* What one line adds to the nodal admittance matrix, entry by entry.      *)
(***************************************************************************)
\* The entry of `sub_matrix` that lands on (row, col), if any.
BlockEntry(sub_matrix, row_indexes, col_indexes, row, col) ==
    LET hits == {ik \in (1..Min(Len(row_indexes), Dim(sub_matrix)))
                          \X (1..Min(Len(col_indexes), Dim(sub_matrix))) :
                     /\ row_indexes[ik[1]] = row
                     /\ col_indexes[ik[2]] = col}
    IN  IF hits = {} THEN Zero
        ELSE LET ik == CHOOSE ik \in hits : TRUE
             IN  sub_matrix[ik[1]][ik[2]]

LineContribution(line) ==
    LET y11 == admittance_matrix_11(electric_grid_data, line)
        y12 == admittance_matrix_12(electric_grid_data, line)
        y21 == admittance_matrix_21(electric_grid_data, line)
        y22 == admittance_matrix_22(electric_grid_data, line)
        n1  == index.node_by_node_name[line.node_1_name]
        n2  == index.node_by_node_name[line.node_2_name]
    IN  [rc \in DOMAIN node_admittance_matrix.entries |->
            CAdd(CAdd(BlockEntry(y11, n1, n1, rc[1], rc[2]),
                      BlockEntry(y12, n1, n2, rc[1], rc[2])),
                 CAdd(BlockEntry(y21, n2, n1, rc[1], rc[2]),
                      BlockEntry(y22, n2, n2, rc[1], rc[2])))]

\* The contributions of lines k..last, summed from the last line backwards.
RECURSIVE ContributionsFrom(_, _)
ContributionsFrom(k, last) ==
    IF k > last
    THEN [rc \in DOMAIN node_admittance_matrix.entries |-> Zero]
    ELSE LET rest == ContributionsFrom(k + 1, last)
             own  == LineContribution(LineRowsOfData[k])
         IN  [rc \in DOMAIN node_admittance_matrix.entries |->
                 CAdd(rest[rc], own[rc])]

\* The four insertions of the loop body for one line.
NodeAdmittanceWith(matrix, line) ==
    LET n1 == index.node_by_node_name[line.node_1_name]
        n2 == index.node_by_node_name[line.node_2_name]
    IN  insert_sub_matrix(
        insert_sub_matrix(
        insert_sub_matrix(
        insert_sub_matrix(matrix,
            admittance_matrix_11(electric_grid_data, line), n1, n1),
            admittance_matrix_12(electric_grid_data, line), n1, n2),
            admittance_matrix_21(electric_grid_data, line), n2, n1),
            admittance_matrix_22(electric_grid_data, line), n2, n2)

\* The loop run over the lines in the opposite order.
RECURSIVE ReverseLoop(_)
ReverseLoop(k) ==
    IF k > Len(LineRowsOfData)
    THEN dok_matrix(index.node_dimension, index.node_dimension)
    ELSE NodeAdmittanceWith(ReverseLoop(k + 1), LineRowsOfData[k])

(***************************************************************************)
(* C7: while the lines are added, when a line raises and when              *)
(* construction completes, every                                           *)
(* entry of the nodal admittance matrix is the sum of what each line added *)
(* so far contributes on its own; the finished matrix is the one the loop  *)
(* gives with the lines taken in the opposite order.                       *)
(***************************************************************************)
C7_AdditiveAccumulation ==
    /\ MatricesDefined =>
          node_admittance_matrix.entries
              = ContributionsFrom(1, line_index - 1)
    /\ Built => node_admittance_matrix = ReverseLoop(1)

C7_Witness ==
    /\ Built
    /\ Len(LineRowsOfData) = 2
    /\ LineRowsOfData[1].line_type = "lt3"
    /\ LineRowsOfData[2].line_type = "lt2"
    /\ LineRowsOfData[1].length # LineRowsOfData[2].length
    /\ LET own1 == LineContribution(LineRowsOfData[1])
           own2 == LineContribution(LineRowsOfData[2])
       IN  \E rc \in DOMAIN node_admittance_matrix.entries :
               /\ own1[rc] # Zero
               /\ own2[rc] # Zero
               /\ node_admittance_matrix.entries[rc] = CAdd(own1[rc], own2[rc])
               /\ node_admittance_matrix.entries[rc] # own2[rc]

(***************************************************************************)
(* C8: node positions are all phase-1 rows, then phase 2, then phase 3;    *)
(* node_by_phase[p] is a run of consecutive positions and the three runs   *)
(* partition 0..node_dimension-1; branch positions are the line rows       *)
(* (phase 1, 2, 3) followed by the one-winding transformer rows (phase 1,  *)
(* 2, 3); inside one phase block the elements keep their declared order.   *)
(***************************************************************************)
Consecutive(s) == \A k \in 1..(Len(s) - 1) : s[k + 1] = s[k] + 1

\* Names of the rows of `table` (a flattened table) of one type and phase.
BlockNames(table, type, phase) ==
    LET rows == SelectSeq(table, LAMBDA row : /\ row.phase = phase
                                              /\ row.branch_type = type)
    IN  [i \in 1..Len(rows) |-> rows[i].branch_name]

\* Names of the declared elements connected at `phase`, in declared order.
DeclaredLineNames(phase) ==
    LET rows == SelectSeq(LineRowsOfData,
                          LAMBDA row : PhaseFlag(row, phase) = 1)
    IN  [i \in 1..Len(rows) |-> rows[i].line_name]

DeclaredTransformerNames(phase) ==
    LET rows == SelectSeq(FirstWindingRows,
                          LAMBDA row : PhaseFlag(row, phase) = 1)
    IN  [i \in 1..Len(rows) |-> rows[i].transformer_name]

DeclaredNodeNames(phase) ==
    LET rows == SelectSeq(NodeRowsOfData,
                          LAMBDA row : PhaseFlag(row, phase) = 1)
    IN  [i \in 1..Len(rows) |-> rows[i].node_name]

NodeBlockNames(phase) ==
    LET rows == SelectSeq(nodes, LAMBDA row : row.phase = phase)
    IN  [i \in 1..Len(rows) |-> rows[i].node_name]

C8_PhaseOrder ==
    IndexBuilt =>
        /\ \A i, k \in 1..Len(nodes) :
              i < k => PhaseNumber(nodes[i].phase) <= PhaseNumber(nodes[k].phase)
        /\ \A phase \in Range(phases) :
              /\ Consecutive(index.node_by_phase[phase])
              /\ NodeBlockNames(phase) = DeclaredNodeNames(phase)
        /\ UNION {Range(index.node_by_phase[phase]) : phase \in Range(phases)}
               = 0..(index.node_dimension - 1)
        /\ \A p, q \in Range(phases) :
              p # q => Range(index.node_by_phase[p])
                           \cap Range(index.node_by_phase[q]) = {}
        /\ \A i, k \in 1..Len(branches) :
              i < k =>
                 /\ branches[i].branch_type = "transformer"
                        => branches[k].branch_type = "transformer"
                 /\ branches[i].branch_type = branches[k].branch_type
                        => PhaseNumber(branches[i].phase)
                               <= PhaseNumber(branches[k].phase)
        /\ \A phase \in Range(phases) :
              /\ BlockNames(branches, "line", phase) = DeclaredLineNames(phase)
              /\ BlockNames(branches, "transformer", phase)
                     = DeclaredTransformerNames(phase)

C8_Witness ==
    /\ IndexBuilt
    /\ Len(NodeRowsOfData) = 2
    /\ Len(nodes) >= 3
    /\ nodes[1].node_name = "n1" /\ nodes[2].node_name = "n2"
    /\ nodes[3].node_name = "n1" /\ nodes[3].phase = "2"
    /\ Len(LineRowsOfData) = 2
    /\ ConnectedPhases(LineRowsOfData[1]) = {"2"}
    /\ ConnectedPhases(LineRowsOfData[2]) = {"1", "3"}
    /\ Len(FirstWindingRows) = 1
    /\ ConnectedPhases(FirstWindingRows[1]) = {"1", "3"}
    /\ [i \in 1..Len(branches) |-> branches[i].branch_type]
           = <<"line", "line", "line", "transformer", "transformer">>
    /\ [i \in 1..Len(branches) |-> branches[i].branch_name][2] = "l1"

(***************************************************************************)
(* C9: for a line whose connected phases are a strict subset of {1, 2, 3}, *)
(* k of them, the element matrices added for the line are k x k,           *)
(* branch_by_line_name[line] has exactly k positions, and the node and     *)
(* branch dimensions hold no position of an unconnected phase.             *)
(***************************************************************************)
C9_PartialPhaseLine ==
    \A i \in 1..Len(LineRowsOfData) :
        LET line == LineRowsOfData[i]
            k == ConnectedCount(line)
        IN  (0 < k /\ k < 3) =>
               /\ IndexBuilt =>
                     /\ Len(index.branch_by_line_name[line.line_name]) = k
                     /\ index.branch_dimension =
                            Cardinality(ConnectedPairs(LineRowsOfData))
                          + Cardinality(ConnectedPairs(FirstWindingRows))
                     /\ index.node_dimension =
                            Cardinality(ConnectedPairs(NodeRowsOfData))
               /\ Built =>
                     /\ Dim(admittance_matrix_11(electric_grid_data, line)) = k
                     /\ Dim(admittance_matrix_12(electric_grid_data, line)) = k
                     /\ Dim(admittance_matrix_21(electric_grid_data, line)) = k
                     /\ Dim(admittance_matrix_22(electric_grid_data, line)) = k

(***************************************************************************)
(* C10 as stated: for a grid of a single line between two distinct nodes   *)
(* and nothing else, the finished nodal admittance matrix has              *)
(* block[node1, node1] = block[node2, node2] = Yseries + Yshunt and        *)
(* block[node1, node2] = block[node2, node1] = -Yseries.                   *)
(***************************************************************************)
SingleLineGrid ==
    /\ Len(LineRowsOfData) = 1
    /\ LineRowsOfData[1].node_1_name # LineRowsOfData[1].node_2_name
    /\ electric_grid_data.electric_grid_transformers = <<>>
    /\ LoadRowsOfData = <<>>

SingleLineBlocks ==
    LET line == LineRowsOfData[1]
        n1 == index.node_by_node_name[line.node_1_name]
        n2 == index.node_by_node_name[line.node_2_name]
        series == series_admittance_matrix(electric_grid_data, line)
        shunt  == shunt_admittance_matrix(electric_grid_data, line)
    IN  /\ Block(node_admittance_matrix, n1, n1)
               = Block(node_admittance_matrix, n2, n2)
        /\ Block(node_admittance_matrix, n1, n1) = MatAdd(series, shunt)
        /\ Block(node_admittance_matrix, n1, n2)
               = Block(node_admittance_matrix, n2, n1)
        /\ Block(node_admittance_matrix, n1, n2) = MatNeg(series)
        /\ \A i \in 1..Len(n1) : \A k \in 1..Len(n2) :
               node_admittance_matrix.entries[<<n1[i], n2[k]>>][4] = 0

C10_SingleLineSymmetry ==
    (Built /\ SingleLineGrid) => SingleLineBlocks

\* Both end nodes have exactly as many connected phases as the line's
\* element matrices have rows.
EndsMatchLine ==
    LET line == LineRowsOfData[1]
        n == Dim(rxc_matrix_full_index(line))
    IN  /\ Len(index.node_by_node_name[line.node_1_name]) = n
        /\ Len(index.node_by_node_name[line.node_2_name]) = n

(***************************************************************************)
(* C10, amended: for a grid of a single line between two distinct nodes    *)
(* and nothing else, where both end nodes have exactly n_phases connected  *)
(* phases, the finished nodal admittance matrix has                        *)
(* block[node1, node1] = block[node2, node2] = Yseries + Yshunt and        *)
(* block[node1, node2] = block[node2, node1] = -Yseries, the shunt         *)
(* admittance appearing in the two diagonal blocks only.                   *)
(***************************************************************************)
C10_SingleLineSymmetryMatched ==
    (Built /\ SingleLineGrid /\ EndsMatchLine) => SingleLineBlocks

C10_Witness ==
    /\ Built
    /\ SingleLineGrid
    /\ EndsMatchLine
    /\ LineRowsOfData[1].line_type = "lt3"
    /\ LineRowsOfData[1].length = 2
    /\ LET n1 == index.node_by_node_name[LineRowsOfData[1].node_1_name]
           n2 == index.node_by_node_name[LineRowsOfData[1].node_2_name]
       IN  /\ node_admittance_matrix.entries[<<n1[1], n1[1]>>][4] # 0
           /\ node_admittance_matrix.entries[<<n1[1], n2[2]>>] # Zero
           /\ node_admittance_matrix.entries[<<n1[1], n2[2]>>][4] = 0

(***************************************************************************)
(* C11: after the index is built, node_by_node_type['source'] is the       *)
(* position list of the node named as the grid's source node (the list     *)
(* node_by_node_name holds for that name), node_by_node_type['no_source']  *)
(* lists all remaining positions, and the two lists are disjoint and       *)
(* together cover 0..node_dimension-1.                                     *)
(***************************************************************************)
SourceNodeName == electric_grid_data.electric_grids.source_node_name

\* The positions of the rows of the node table with the given name.
PositionsOfNode(node_name) ==
    IF node_name \in DOMAIN index.node_by_node_name
    THEN index.node_by_node_name[node_name]
    ELSE <<>>

\* A list of positions without repetition, in increasing order.
Increasing(s) == \A i \in 1..(Len(s) - 1) : s[i] < s[i + 1]

C11_NodeTypePartition ==
    IndexBuilt =>
        LET source    == index.node_by_node_type["source"]
            no_source == index.node_by_node_type["no_source"]
            all       == 0..(index.node_dimension - 1)
        IN  /\ DOMAIN index.node_by_node_type = {"source", "no_source"}
            /\ source = PositionsOfNode(SourceNodeName)
            /\ Increasing(no_source)
            /\ Range(no_source) = all \ Range(source)
            /\ Range(source) \cap Range(no_source) = {}
            /\ Range(source) \cup Range(no_source) = all

C11_Witness ==
    /\ IndexBuilt
    /\ Len(NodeRowsOfData) = 2
    /\ SourceNodeName = "n1"
    /\ index.node_by_node_type["source"] = <<0, 3>>
    /\ index.node_by_node_type["no_source"] = <<1, 2, 4>>

(***************************************************************************)
(* C12: after the index is built, for every node n and phase p the lists   *)
(* node_by_node_name[n] and node_by_phase[p] share exactly one position    *)
(* when n has phase p connected and none otherwise; node_by_node_name[n]   *)
(* has one position per connected phase of n, in increasing phase order,   *)
(* and the lists of distinct nodes are disjoint.                           *)
(***************************************************************************)
\* The connected phases of a row, in phase order.
ConnectedPhaseList(row) ==
    SelectSeq(phases, LAMBDA phase : PhaseFlag(row, phase) = 1)

C12_NodeLookupsConsistent ==
    IndexBuilt =>
        \A i \in 1..Len(NodeRowsOfData) :
            LET row == NodeRowsOfData[i]
                own == index.node_by_node_name[row.node_name]
                own_phases == ConnectedPhaseList(row)
            IN  /\ \A phase \in Range(phases) :
                       Cardinality(Range(own)
                                   \cap Range(index.node_by_phase[phase]))
                           = PhaseFlag(row, phase)
                /\ Len(own) = Len(own_phases)
                /\ Increasing(own)
                /\ \A k \in 1..Len(own) :
                       own[k] \in Range(index.node_by_phase[own_phases[k]])
                /\ \A j \in 1..Len(NodeRowsOfData) :
                       j # i =>
                           Range(own) \cap
                           Range(index.node_by_node_name[
                                     NodeRowsOfData[j].node_name]) = {}

C12_Witness ==
    /\ IndexBuilt
    /\ Len(NodeRowsOfData) = 2
    /\ ConnectedPhases(NodeRowsOfData[1]) = {"1", "3"}
    /\ ConnectedPhases(NodeRowsOfData[2]) = {"1", "2", "3"}
    /\ index.node_by_node_name[NodeRowsOfData[1].node_name] = <<0, 3>>
    /\ index.node_by_node_name[NodeRowsOfData[2].node_name] = <<1, 2, 4>>
    /\ index.node_by_phase["2"] = <<2>>
    /\ index.node_by_phase["3"] = <<3, 4>>

(***************************************************************************)
(* C13: for every line that has been added, the sub-matrix entry of line   *)
(* phases (p, q) was added at a row whose node or branch phase is p and a  *)
(* column whose node phase is q, whatever the number of connected phases   *)
(* of the end nodes: no entry is dropped, and the finished nodal           *)
(* admittance matrix is nonzero only at node phases to which a line at     *)
(* that node is connected.                                                 *)
(***************************************************************************)
\* The lines the loop has added so far: the passes before line_index,
\* also when the pass at line_index raised.
AddedLines ==
    IF MatricesDefined
    THEN {LineRowsOfData[k] : k \in 1..(line_index - 1)}
    ELSE {}

\* Entry i of the sub-matrices belongs to the i-th connected phase of the
\* line; it is placed at position_list[i] of a table with a phase column.
PlacedAtPhase(line, position_list, table) ==
    LET line_phases == ConnectedPhaseList(line)
    IN  \A i \in 1..Len(line_phases) :
            /\ i <= Len(position_list)
            /\ table[position_list[i] + 1].phase = line_phases[i]

\* Some line ending at the node of this position has the position's phase.
LinePhaseAt(position) ==
    \E k \in 1..Len(LineRowsOfData) :
        LET line == LineRowsOfData[k]
        IN  /\ nodes[position + 1].node_name
                   \in {line.node_1_name, line.node_2_name}
            /\ nodes[position + 1].phase \in ConnectedPhases(line)

C13_PhaseCorrespondence ==
    /\ \A line \in AddedLines :
           Dim(admittance_matrix_11(electric_grid_data, line))
               = ConnectedCount(line) =>
               /\ PlacedAtPhase(line,
                      index.node_by_node_name[line.node_1_name], nodes)
               /\ PlacedAtPhase(line,
                      index.node_by_node_name[line.node_2_name], nodes)
               /\ PlacedAtPhase(line,
                      index.branch_by_line_name[line.line_name], branches)
    /\ Built =>
           \A rc \in DOMAIN node_admittance_matrix.entries :
               node_admittance_matrix.entries[rc] # Zero =>
                   LinePhaseAt(rc[1]) /\ LinePhaseAt(rc[2])

(***************************************************************************)
(* C14: after the index is built, the keys of branch_by_line_name are      *)
(* exactly the line names and, for every line l, branch_by_line_name[l]    *)
(* lists only rows of the branch table of type 'line' and name l, also in  *)
(* grids with transformers and where a transformer shares a line's name.   *)
(***************************************************************************)
C14_LineLookupOnlyLines ==
    IndexBuilt =>
        /\ DOMAIN index.branch_by_line_name = Range(index.line_names)
        /\ \A i \in 1..Len(LineRowsOfData) :
               LET line_name == LineRowsOfData[i].line_name
               IN  /\ line_name \in DOMAIN index.branch_by_line_name
                   /\ \A position \in
                          Range(index.branch_by_line_name[line_name]) :
                          /\ branches[position + 1].branch_type = "line"
                          /\ branches[position + 1].branch_name = line_name

=============================================================================
